---- MODULE Spec2Model ----
(***************************************************************************)
(* Model of rs-poker's Monte Carlo hold'em trial engine                    *)
(* (src/holdem/monte_carlo_game.rs): the two constructors, simulate,       *)
(* reset and shuffle_if_needed.                                            *)
(*                                                                         *)
(* Cards are the integers 0..51 (value = c \div 4, suit = c % 4).  Indices *)
(* into Rust vectors are 0-based in the source; TLA+ sequences are         *)
(* 1-based, so pool position p of the source is deck[p + 1] here, and the  *)
(* hand index simulate returns is kept 0-based.                            *)
(***************************************************************************)
EXTENDS Integers, Sequences, FiniteSets, TLC

VARIABLES
    in_hands,        \* argument `hands` of the constructor call
    in_board,        \* argument `board` of the constructor call
    ctor,            \* which constructor is called
    phase,           \* "new" | "built" | "failed" | "panicked"
    err,             \* Err(..) returned by the constructor, or NoError
    deck,            \* self.deck   (FlatDeck: the pool, in order)
    board,           \* self.board
    hands,           \* self.hands
    current_offset,  \* self.current_offset
    result,          \* value returned by the last simulate call
    last,            \* history: what the last call did
    epoch,           \* history: pool positions drawn since the last shuffle
    ever_shuffled    \* history: the pool has been shuffled at least once

vars == <<in_hands, in_board, ctor, phase, err, deck, board, hands,
          current_offset, result, last, epoch, ever_shuffled>>

-----------------------------------------------------------------------------
(* Bounds of the model *)

\* hand counts 0..MaxFewHands are explored (large pools)
MaxFewHands == 2
\* hand counts (26 - ManySpan)..26 are explored (pools of a few cards)
ManySpan == 3
\* a shuffle is one of the permutations 0..ShuffleKinds
ShuffleKinds == 2
\* Deck::flatten gives one of the orders 0..FlattenKinds
FlattenKinds == 0
\* simulate may be called this many times in a row without reset
MaxRun == 2

(* Program constants *)

DeckSize == 52
HandSize == 2
BoardMax == 5
FullBoard == 5
ShuffleNeed == 5
Sentinel == 52

-----------------------------------------------------------------------------
(* Sequence helpers *)

Range(s) == {s[i] : i \in DOMAIN s}

Max(S) == CHOOSE x \in S : \A y \in S : y <= x

Min(S) == CHOOSE x \in S : \A y \in S : x <= y

Reverse(s) == [i \in 1..Len(s) |-> s[Len(s) + 1 - i]]

RotateLeft(s, k) ==
    IF Len(s) = 0 THEN s
    ELSE [i \in 1..Len(s) |-> s[((i - 1 + k) % Len(s)) + 1]]

RECURSIVE Flat(_)
Flat(ss) == IF ss = <<>> THEN <<>> ELSE Head(ss) \o Flat(Tail(ss))

NoDup(s) == Cardinality(Range(s)) = Len(s)

SwapHalves(s) ==
    LET m   == Len(s) \div 2
        off == Len(s) - m
    IN  [i \in 1..Len(s) |->
            IF i <= m THEN s[i + off] ELSE IF i > off THEN s[i - off] ELSE s[i]]

RECURSIVE SortedSeq(_)
SortedSeq(S) ==
    IF S = {} THEN <<>> ELSE <<Min(S)>> \o SortedSeq(S \ {Min(S)})

-----------------------------------------------------------------------------
(* crate::core collaborators: Card, Deck, FlatDeck, Hand::rank *)

Cards == 0..(DeckSize - 1)

Value(c) == c \div 4

Suit(c) == c % 4

\* Deck::default(): the full deck, as a set
DeckDefault == Cards

\* Deck::remove(c): whether c was present, and the deck without it
DeckRemove(d, c) == [ok |-> c \in d, deck |-> d \ {c}]

\* Deck::flatten(): the remaining cards as a vector; the deck is a hash set,
\* so the order is whatever its iteration gives: `k` picks it
Flatten(d, k) == RotateLeft(SortedSeq(d), 7 * k)

\* FlatDeck::shuffle(): a random permutation of the vector in place; `k`
\* picks it: bit 0 reverses the vector, bit 1 swaps its two halves
Shuffle(s, k) ==
    LET r == IF (k \div 2) % 2 = 1 THEN SwapHalves(s) ELSE s
    IN  IF k % 2 = 1 THEN Reverse(r) ELSE r

Cnt(h, v) == Cardinality({i \in DOMAIN h : Value(h[i]) = v})

SuitCnt(h, s) == Cardinality({i \in DOMAIN h : Suit(h[i]) = s})

StraightTops(V) ==
    {t \in 4..12 : \A d \in 0..4 : (t - d) \in V}
        \cup (IF {12, 0, 1, 2, 3} \subseteq V THEN {3} ELSE {})

MaxOr(S, dflt) == IF S = {} THEN dflt ELSE Max(S)

\* Hand::rank(): a totally ordered strength: category, then two tie-breakers
rank(h) ==
    LET V      == {Value(h[i]) : i \in DOMAIN h}
        n      == [v \in V |-> Cnt(h, v)]
        v2     == {v \in V : n[v] >= 2}
        v3     == {v \in v2 : n[v] >= 3}
        v4     == {v \in v3 : n[v] >= 4}
        fl     == {s \in 0..3 : SuitCnt(h, s) >= 5}
        FV(s)  == {Value(h[i]) : i \in {j \in DOMAIN h : Suit(h[j]) = s}}
        sf     == UNION {StraightTops(FV(s)) : s \in fl}
        st     == StraightTops(V)
        Enc(c, a, b) == c * 169 + a * 13 + b
    IN  IF h = <<>> THEN 0
        ELSE IF sf # {} THEN Enc(8, Max(sf), 0)
        ELSE IF v4 # {} THEN Enc(7, Max(v4), MaxOr(V \ {Max(v4)}, 0))
        ELSE IF v3 # {} /\ v2 \ {Max(v3)} # {}
             THEN Enc(6, Max(v3), Max(v2 \ {Max(v3)}))
        ELSE IF fl # {} THEN Enc(5, Max(UNION {FV(s) : s \in fl}), 0)
        ELSE IF st # {} THEN Enc(4, Max(st), 0)
        ELSE IF v3 # {} THEN Enc(3, Max(v3), MaxOr(V \ {Max(v3)}, 0))
        ELSE IF Cardinality(v2) >= 2
             THEN Enc(2, Max(v2), Max(v2 \ {Max(v2)}))
        ELSE IF v2 # {} THEN Enc(1, Max(v2), MaxOr(V \ {Max(v2)}, 0))
        ELSE Enc(0, Max(V), MaxOr(V \ {Max(V)}, 0))

-----------------------------------------------------------------------------
(* Constructors *)

NoError == [kind |-> "none", card |-> -1]

InvalidHandSize == [kind |-> "InvalidHandSize", card |-> -1]

BoardTooLarge == [kind |-> "BoardTooLarge", card |-> -1]

DuplicateCard(c) == [kind |-> "DuplicateCard", card |-> c]

\* variant: the result of Deck::remove is ignored
RECURSIVE RemoveAll_unchecked(_, _)
RemoveAll_unchecked(d, cards) ==
    IF cards = <<>> THEN [err |-> NoError, deck |-> d]
    ELSE RemoveAll_unchecked(DeckRemove(d, Head(cards)).deck, Tail(cards))

\* `for c in cards { if !d.remove(*c) { return Err(..) } }`
RECURSIVE RemoveAll(_, _)
RemoveAll(d, cards) ==
    IF cards = <<>> THEN [err |-> NoError, deck |-> d]
    ELSE LET r == DeckRemove(d, Head(cards))
         IN  IF ~r.ok THEN [err |-> DuplicateCard(Head(cards)), deck |-> d]
             ELSE RemoveAll(r.deck, Tail(cards))

\* variant: the length of a hand is not checked
RECURSIVE RemoveHands_unsized(_, _)
RemoveHands_unsized(d, hs) ==
    IF hs = <<>> THEN [err |-> NoError, deck |-> d]
    ELSE LET r == RemoveAll(d, Head(hs))
         IN  IF r.err # NoError THEN r ELSE RemoveHands_unsized(r.deck, Tail(hs))

\* `for h in &hands { if h.len() != 2 { return Err(..) } for c in h.iter() {..} }`
RECURSIVE RemoveHands(_, _)
RemoveHands(d, hs) ==
    IF hs = <<>> THEN [err |-> NoError, deck |-> d]
    ELSE IF Len(Head(hs)) # HandSize THEN [err |-> InvalidHandSize, deck |-> d]
    ELSE LET r == RemoveAll(d, Head(hs))
         IN  IF r.err # NoError THEN r ELSE RemoveHands(r.deck, Tail(hs))

\* variant: the cursor starts at 0 instead of 52
new_with_hands_zero(hs) ==
    LET r == RemoveHands(DeckDefault, hs)
    IN  [err |-> r.err, deck |-> r.deck, hands |-> hs, board |-> <<>>,
         current_offset |-> 0]

\* variant: the length of a hand is not checked
new_with_hands_unsized(hs) ==
    LET r == RemoveHands_unsized(DeckDefault, hs)
    IN  [err |-> r.err, deck |-> r.deck, hands |-> hs, board |-> <<>>,
         current_offset |-> Sentinel]

new_with_hands(hs) ==
    LET r == RemoveHands(DeckDefault, hs)
    IN  [err |-> r.err, deck |-> r.deck, hands |-> hs, board |-> <<>>,
         current_offset |-> Sentinel]

\* variant: the board's cards are left in the deck
new_with_board_keep(hs, b) ==
    IF Len(b) > BoardMax
    THEN [err |-> BoardTooLarge, deck |-> DeckDefault, hands |-> hs,
          board |-> b, current_offset |-> Sentinel]
    ELSE LET r == RemoveHands(DeckDefault, hs)
         IN  [err |-> r.err, deck |-> r.deck, hands |-> hs, board |-> b,
              current_offset |-> Sentinel]

\* variant: the board's length is checked after the hands
new_with_board_late(hs, b) ==
    LET r == RemoveHands(DeckDefault, hs)
        q == IF r.err # NoError THEN r
             ELSE IF Len(b) > BoardMax THEN [err |-> BoardTooLarge, deck |-> r.deck]
             ELSE RemoveAll(r.deck, b)
    IN  [err |-> q.err, deck |-> q.deck, hands |-> hs, board |-> b,
         current_offset |-> Sentinel]

new_with_board(hs, b) ==
    IF Len(b) > BoardMax
    THEN [err |-> BoardTooLarge, deck |-> DeckDefault, hands |-> hs,
          board |-> b, current_offset |-> Sentinel]
    ELSE LET r == RemoveHands(DeckDefault, hs)
             q == IF r.err # NoError THEN r ELSE RemoveAll(r.deck, b)
         IN  [err |-> q.err, deck |-> q.deck, hands |-> hs, board |-> b,
              current_offset |-> Sentinel]

-----------------------------------------------------------------------------
(* simulate, reset, shuffle_if_needed, on self = [deck, board, hands,      *)
(* current_offset]                                                         *)

NoResult == [kind |-> "none", index |-> -1, rank |-> -1]

ErrNoHands == [kind |-> "NoHands", index |-> -1, rank |-> -1]

ErrRankingUnavailable == [kind |-> "RankingUnavailable", index |-> -1, rank |-> -1]

OkResult(i, r) == [kind |-> "Ok", index |-> i, rank |-> r]

\* variant: the pool is shuffled but the cursor is left where it was
shuffle_if_needed_keep(self, o) ==
    IF self.current_offset + ShuffleNeed > Len(self.deck)
    THEN [self |-> [self EXCEPT !.deck = Shuffle(self.deck, o)],
          shuffled |-> TRUE]
    ELSE [self |-> self, shuffled |-> FALSE]

\* variant: the test uses the number of cards this trial needs
shuffle_if_needed_by_need(self, o) ==
    IF self.current_offset + (FullBoard - Len(self.board)) > Len(self.deck)
    THEN [self |-> [self EXCEPT !.current_offset = 0,
                                !.deck = Shuffle(self.deck, o)],
          shuffled |-> TRUE]
    ELSE [self |-> self, shuffled |-> FALSE]

\* variant: the test is >= instead of >
shuffle_if_needed_ge(self, o) ==
    IF self.current_offset + ShuffleNeed >= Len(self.deck)
    THEN [self |-> [self EXCEPT !.current_offset = 0,
                                !.deck = Shuffle(self.deck, o)],
          shuffled |-> TRUE]
    ELSE [self |-> self, shuffled |-> FALSE]

\* variant: a reshuffle starts again from the full deck
shuffle_if_needed_full(self, o) ==
    IF self.current_offset + ShuffleNeed > Len(self.deck)
    THEN [self |-> [self EXCEPT !.current_offset = 0,
                                !.deck = Shuffle([i \in 1..DeckSize |-> i - 1], o)],
          shuffled |-> TRUE]
    ELSE [self |-> self, shuffled |-> FALSE]

\* `if self.current_offset + 5 > self.deck.len() { offset = 0; shuffle }`
\* (the new self, and whether the pool was shuffled)
shuffle_if_needed(self, o) ==
    IF self.current_offset + ShuffleNeed > Len(self.deck)
    THEN [self |-> [self EXCEPT !.current_offset = 0,
                                !.deck = Shuffle(self.deck, o)],
          shuffled |-> TRUE]
    ELSE [self |-> self, shuffled |-> FALSE]

\* variant: the cards are put in front of each hand
PushAll_front(hs, cs) == [i \in DOMAIN hs |-> cs \o hs[i]]

\* `for c in cs { for h in &mut hands { h.push(*c) } }`
PushAll(hs, cs) == [i \in DOMAIN hs |-> hs[i] \o cs]

\* `&self.deck[a..b]` is in range iff a <= b <= len
SliceInRange(s, a, b) == a <= b /\ b <= Len(s)

\* Iterator::max_by_key over the enumerated ranks: a fold that keeps the
\* later element when the keys compare equal; 1-based position, 0 if empty
RECURSIVE MaxFold(_, _, _)
MaxFold(keys, i, best) ==
    IF i > Len(keys) THEN best
    ELSE MaxFold(keys, i + 1, IF keys[i] >= keys[best] THEN i ELSE best)

\* variant: the minimum is taken
RECURSIVE MinFold(_, _, _)
MinFold(keys, i, best) ==
    IF i > Len(keys) THEN best
    ELSE MinFold(keys, i + 1, IF keys[i] <= keys[best] THEN i ELSE best)

max_by_key_min(keys) == IF keys = <<>> THEN 0 ELSE MinFold(keys, 2, 1)

\* variant: the earlier element is kept when the keys compare equal
RECURSIVE FirstFold(_, _, _)
FirstFold(keys, i, best) ==
    IF i > Len(keys) THEN best
    ELSE FirstFold(keys, i + 1, IF keys[i] > keys[best] THEN i ELSE best)

max_by_key_first(keys) == IF keys = <<>> THEN 0 ELSE FirstFold(keys, 2, 1)

max_by_key(keys) == IF keys = <<>> THEN 0 ELSE MaxFold(keys, 2, 1)

\* lines 94..101: rank every hand, take the maximum, None becomes an error
best_rank(hs) ==
    LET keys == [i \in DOMAIN hs |-> rank(hs[i])]
        b    == max_by_key(keys)
    IN  IF b = 0 THEN ErrRankingUnavailable ELSE OkResult(b - 1, keys[b])

\* variant: the cursor is not advanced after the draw
simulate_no_advance(self, o) ==
    IF self.hands = <<>>
    THEN [self |-> self, ret |-> ErrNoHands, panicked |-> FALSE,
          drawn |-> <<>>, start |-> self.current_offset, shuffled |-> FALSE]
    ELSE
      LET s1        == [self EXCEPT !.hands = PushAll(self.hands, self.board)]
          num_cards == FullBoard - Len(self.board)
          sh        == shuffle_if_needed(s1, o)
          s2        == sh.self
          lo        == s2.current_offset
          hi        == s2.current_offset + num_cards
      IN  IF ~SliceInRange(s2.deck, lo, hi)
          THEN [self |-> s2, ret |-> NoResult, panicked |-> TRUE,
                drawn |-> <<>>, start |-> lo, shuffled |-> sh.shuffled]
          ELSE
            LET cs == SubSeq(s2.deck, lo + 1, hi)
                s3 == [s2 EXCEPT !.hands = PushAll(s2.hands, cs)]
            IN  [self |-> s3, ret |-> best_rank(s3.hands), panicked |-> FALSE,
                 drawn |-> cs, start |-> lo, shuffled |-> sh.shuffled]

\* variant: the board is not added to the hands
simulate_no_board(self, o) ==
    IF self.hands = <<>>
    THEN [self |-> self, ret |-> ErrNoHands, panicked |-> FALSE,
          drawn |-> <<>>, start |-> self.current_offset, shuffled |-> FALSE]
    ELSE
      LET num_cards == FullBoard - Len(self.board)
          sh        == shuffle_if_needed(self, o)
          s2        == sh.self
          lo        == s2.current_offset
          hi        == s2.current_offset + num_cards
      IN  IF ~SliceInRange(s2.deck, lo, hi)
          THEN [self |-> s2, ret |-> NoResult, panicked |-> TRUE,
                drawn |-> <<>>, start |-> lo, shuffled |-> sh.shuffled]
          ELSE
            LET cs == SubSeq(s2.deck, lo + 1, hi)
                s3 == [s2 EXCEPT !.hands = PushAll(s2.hands, cs),
                                 !.current_offset = hi]
            IN  [self |-> s3, ret |-> best_rank(s3.hands), panicked |-> FALSE,
                 drawn |-> cs, start |-> lo, shuffled |-> sh.shuffled]

\* variant: the check for an empty hand set is missing
simulate_unguarded(self, o) ==
      LET s1        == [self EXCEPT !.hands = PushAll(self.hands, self.board)]
          num_cards == FullBoard - Len(self.board)
          sh        == shuffle_if_needed(s1, o)
          s2        == sh.self
          lo        == s2.current_offset
          hi        == s2.current_offset + num_cards
      IN  IF ~SliceInRange(s2.deck, lo, hi)
          THEN [self |-> s2, ret |-> NoResult, panicked |-> TRUE,
                drawn |-> <<>>, start |-> lo, shuffled |-> sh.shuffled]
          ELSE
            LET cs == SubSeq(s2.deck, lo + 1, hi)
                s3 == [s2 EXCEPT !.hands = PushAll(s2.hands, cs),
                                 !.current_offset = hi]
            IN  [self |-> s3, ret |-> best_rank(s3.hands), panicked |-> FALSE,
                 drawn |-> cs, start |-> lo, shuffled |-> sh.shuffled]

\* variant: the shuffle check runs before the check for an empty hand set
simulate_shuffle_first(self, o) ==
      LET sh        == shuffle_if_needed(self, o)
          s1        == [sh.self EXCEPT !.hands = PushAll(self.hands, self.board)]
          num_cards == FullBoard - Len(self.board)
          lo        == s1.current_offset
          hi        == s1.current_offset + num_cards
      IN  IF self.hands = <<>>
          THEN [self |-> sh.self, ret |-> ErrNoHands, panicked |-> FALSE,
                drawn |-> <<>>, start |-> lo, shuffled |-> sh.shuffled]
          ELSE IF ~SliceInRange(s1.deck, lo, hi)
          THEN [self |-> s1, ret |-> NoResult, panicked |-> TRUE,
                drawn |-> <<>>, start |-> lo, shuffled |-> sh.shuffled]
          ELSE
            LET cs == SubSeq(s1.deck, lo + 1, hi)
                s3 == [s1 EXCEPT !.hands = PushAll(s1.hands, cs),
                                 !.current_offset = hi]
            IN  [self |-> s3, ret |-> best_rank(s3.hands), panicked |-> FALSE,
                 drawn |-> cs, start |-> lo, shuffled |-> sh.shuffled]

\* simulate: the new self, the value returned, and whether the slice panicked
simulate(self, o) ==
    IF self.hands = <<>>
    THEN [self |-> self, ret |-> ErrNoHands, panicked |-> FALSE,
          drawn |-> <<>>, start |-> self.current_offset, shuffled |-> FALSE]
    ELSE
      LET s1        == [self EXCEPT !.hands = PushAll(self.hands, self.board)]
          num_cards == FullBoard - Len(self.board)
          sh        == shuffle_if_needed(s1, o)
          s2        == sh.self
          lo        == s2.current_offset
          hi        == s2.current_offset + num_cards
      IN  IF ~SliceInRange(s2.deck, lo, hi)
          THEN [self |-> s2, ret |-> NoResult, panicked |-> TRUE,
                drawn |-> <<>>, start |-> lo, shuffled |-> sh.shuffled]
          ELSE
            LET cs == SubSeq(s2.deck, lo + 1, hi)
                s3 == [s2 EXCEPT !.hands = PushAll(s2.hands, cs),
                                 !.current_offset = hi]
            IN  [self |-> s3, ret |-> best_rank(s3.hands), panicked |-> FALSE,
                 drawn |-> cs, start |-> lo, shuffled |-> sh.shuffled]

\* reset: `for h in &mut self.hands { h.truncate(2) }`
Truncate(h, n) == IF Len(h) > n THEN SubSeq(h, 1, n) ELSE h

\* variant: one card too many is kept
reset_keep3(self) ==
    [self EXCEPT !.hands = [i \in DOMAIN self.hands |-> Truncate(self.hands[i], HandSize + 1)]]

\* variant: reset also rewinds the cursor
reset_rewind(self) ==
    [self EXCEPT !.hands = [i \in DOMAIN self.hands |-> Truncate(self.hands[i], HandSize)],
                 !.current_offset = 0]

reset(self) ==
    [self EXCEPT !.hands = [i \in DOMAIN self.hands |-> Truncate(self.hands[i], HandSize)]]

-----------------------------------------------------------------------------
(* Inputs of the constructor calls *)

\* hand i of a well-formed input: As 7d, Ah 6c, Ad 4s, Ac 3h, ...; the 26
\* hands together hold every card once
HolePair(i) == <<DeckSize - i, (26 * 5 - 5 * i) % 26>>

GoodHands(n) == [i \in 1..n |-> HolePair(i)]

\* ways to spoil hand j: one card, three cards, a card of hand 1 repeated
Spoil(hs, j, how) ==
    IF j > Len(hs) \/ how = "none" THEN hs
    ELSE IF how = "short" THEN [hs EXCEPT ![j] = <<hs[j][1]>>]
    ELSE IF how = "long"  THEN [hs EXCEPT ![j] = Append(hs[j], hs[j][1] - 26)]
    ELSE [hs EXCEPT ![j] = <<hs[j][1], hs[1][1]>>]

Spoils == {"none", "short", "long", "dup"}

HandCounts == (0..MaxFewHands) \cup ((DeckSize \div HandSize - ManySpan)..(DeckSize \div HandSize))

InputHands ==
    {GoodHands(n) : n \in HandCounts}
        \cup {Spoil(Spoil(GoodHands(n), j1, h1), j2, h2) :
                n \in 1..MaxFewHands, j1 \in 1..MaxFewHands, j2 \in 1..MaxFewHands,
                h1 \in Spoils, h2 \in Spoils}

\* boards: the cards of the last three hands (2c 8h 3d 8s 4h 9c), cut to
\* length b; the last card may repeat the board's first card or the first
\* card of hand 1
BoardOf(b) == [j \in 1..b |-> HolePair(26 - ((j - 1) \div 2))[2 - ((j - 1) % 2)]]

InputBoards ==
    {BoardOf(b) : b \in 0..(BoardMax + 1)}
        \cup {[BoardOf(b) EXCEPT ![b] = BoardOf(1)[1]] : b \in 2..(BoardMax + 1)}
        \cup {[BoardOf(b) EXCEPT ![b] = DeckSize - 1] : b \in 1..(BoardMax + 1)}

-----------------------------------------------------------------------------
(* The state machine *)

Self == [deck |-> deck, board |-> board, hands |-> hands,
         current_offset |-> current_offset]

NoCall == [op |-> "none", ready |-> FALSE, shuffled |-> FALSE, before |-> -1,
           start |-> -1, drawn |-> <<>>, run |-> 0]

Ready == \A i \in DOMAIN hands : Len(hands[i]) = HandSize

Init ==
    /\ in_hands \in InputHands
    /\ in_board \in InputBoards
    /\ ctor \in {"new_with_hands", "new_with_board"}
    /\ ctor = "new_with_hands" => in_board = <<>>
    /\ phase = "new"
    /\ err = NoError
    /\ deck = <<>>
    /\ board = <<>>
    /\ hands = <<>>
    /\ current_offset = 0
    /\ result = NoResult
    /\ last = NoCall
    /\ epoch = <<>>
    /\ ever_shuffled = FALSE

Construct(r) ==
    /\ UNCHANGED <<in_hands, in_board, ctor, result, last, epoch, ever_shuffled>>
    /\ IF r.err # NoError
       THEN /\ phase' = "failed"
            /\ err' = r.err
            /\ UNCHANGED <<deck, board, hands, current_offset>>
       ELSE /\ phase' = "built"
            /\ err' = NoError
            /\ \E k \in 0..FlattenKinds : deck' = Flatten(r.deck, k)
            /\ board' = r.board
            /\ hands' = r.hands
            /\ current_offset' = r.current_offset

NewWithHands ==
    /\ phase = "new"
    /\ ctor = "new_with_hands"
    /\ \E r \in {new_with_hands(in_hands)} : Construct(r)

NewWithBoard ==
    /\ phase = "new"
    /\ ctor = "new_with_board"
    /\ \E r \in {new_with_board(in_hands, in_board)} : Construct(r)

Simulate ==
    /\ phase = "built"
    /\ last.run < MaxRun
    /\ \E o \in 0..ShuffleKinds : \E r \in {simulate(Self, o)} :
             /\ deck' = r.self.deck
             /\ board' = r.self.board
             /\ hands' = r.self.hands
             /\ current_offset' = r.self.current_offset
             /\ result' = r.ret
             /\ phase' = IF r.panicked THEN "panicked" ELSE "built"
             /\ last' = [op |-> "simulate", ready |-> Ready,
                         shuffled |-> r.shuffled,
                         before |-> current_offset,
                         start |-> r.start, drawn |-> r.drawn,
                         run |-> last.run + 1]
             /\ epoch' = (IF r.shuffled THEN <<>> ELSE epoch)
                            \o [j \in 1..Len(r.drawn) |-> r.start + j - 1]
             /\ ever_shuffled' = (ever_shuffled \/ r.shuffled)
    /\ UNCHANGED <<in_hands, in_board, ctor, err>>

Reset ==
    /\ phase = "built"
    /\ \E s \in {reset(Self)} :
           /\ deck' = s.deck
           /\ board' = s.board
           /\ hands' = s.hands
           /\ current_offset' = s.current_offset
    /\ last' = [op |-> "reset", ready |-> Ready, shuffled |-> FALSE,
                before |-> current_offset, start |-> -1, drawn |-> <<>>,
                run |-> 0]
    /\ UNCHANGED <<in_hands, in_board, ctor, phase, err, result, epoch,
                   ever_shuffled>>

Next == NewWithHands \/ NewWithBoard \/ Simulate \/ Reset

Spec == Init /\ [][Next]_vars

-----------------------------------------------------------------------------
(* Properties *)

\* the engine exists: a constructor returned Ok
Built == phase \in {"built", "panicked"}

\* a constructor has returned
Returned == phase # "new"

\* the last call was a simulate that returned Ok
Dealt == last.op = "simulate" /\ result.kind = "Ok"

HoleCards == Flat([i \in DOMAIN hands |-> SubSeq(hands[i], 1, HandSize)])

InputCards == Flat(in_hands) \o in_board

RepeatedCards == {c \in Range(InputCards) :
                    Cardinality({i \in DOMAIN InputCards : InputCards[i] = c}) > 1}

HasRepeats == ~NoDup(InputCards)

BadSizes == {i \in DOMAIN in_hands : Len(in_hands[i]) # HandSize}

Needed == FullBoard - Len(board)

Ranks == [i \in DOMAIN hands |-> rank(hands[i])]

\* the hands of maximal rank
Tied(rs) == {i \in DOMAIN rs : \A j \in DOMAIN rs : rs[j] <= rs[i]}

\* C1: after a constructor succeeds, hole cards, board and pool hold each of
\* the 52 cards exactly once, so the pool has 52 - 2*hands - board cards
C1_Partition ==
    Built =>
        \A all \in {HoleCards \o board \o deck} :
            /\ Len(all) = DeckSize
            /\ Range(all) = Cards
            /\ Len(deck) = DeckSize - HandSize * Len(hands) - Len(board)

C1_Witness ==
    /\ phase = "built" /\ last.op = "none"
    /\ ctor = "new_with_board" /\ Len(hands) = 2 /\ Len(board) = 3

\* C2: simulate never panics: the slice deck[cursor .. cursor + needed] is
\* always in range
C2_NoPanic == phase # "panicked"

\* C3: within one shuffle epoch no pool position is drawn twice, so no card
\* is dealt twice, and no drawn card is a hole card or a board card
C3_NoRedeal ==
    Built =>
        /\ NoDup(epoch)
        /\ \A j \in DOMAIN epoch : epoch[j] + 1 \in DOMAIN deck
        /\ NoDup([j \in DOMAIN epoch |-> deck[epoch[j] + 1]])
        /\ \A used \in {Range(HoleCards) \cup Range(board)} :
              \A j \in DOMAIN epoch : deck[epoch[j] + 1] \notin used

C3_Witness ==
    /\ Dealt /\ ~last.shuffled /\ last.ready
    /\ Len(last.drawn) = 5 /\ Len(epoch) >= 15

\* C4 as stated: after simulate returns a result every hand has 7 cards
C4_SevenCards ==
    Dealt => \A i \in DOMAIN hands : Len(hands[i]) = HandSize + FullBoard

\* C4 amended: after simulate returns a result on an engine whose hands all
\* had 2 cards, every hand has 7 cards
C4_SevenCardsFromReady ==
    (Dealt /\ last.ready) =>
        \A i \in DOMAIN hands : Len(hands[i]) = HandSize + FullBoard

C4_Witness == Dealt /\ last.ready /\ Len(hands) = 2 /\ Len(board) = 2

\* C5: after reset every hand is exactly the 2 hole cards it was built with
C5_ResetRestores == last.op = "reset" => hands = in_hands

C5_Witness ==
    /\ last.op = "reset" /\ ~last.ready /\ result.kind = "Ok"
    /\ Len(hands) = 2 /\ current_offset > 0

\* C6: the rank returned is the rank of the hand at the index returned and
\* no hand of the trial ranks higher
C6_WinnerIsMax ==
    Dealt =>
        \A rs \in {Ranks} :
            /\ result.index + 1 \in DOMAIN hands
            /\ result.rank = rs[result.index + 1]
            /\ \A i \in DOMAIN rs : rs[i] <= result.rank

C6_Witness ==
    /\ Dealt /\ last.ready
    /\ \E rs \in {Ranks} : \E i \in DOMAIN rs : rs[i] < result.rank

\* C7: among the hands of maximal rank the greatest index is returned
C7_LastOfTied ==
    Dealt => \A rs \in {Ranks} : result.index + 1 = Max(Tied(rs))

C7_Witness ==
    /\ Dealt /\ last.ready
    /\ \E rs \in {Ranks} : Cardinality(Tied(rs)) >= 2

\* C8: after simulate from the Ready state every hand is its hole cards,
\* then the board, then the pool cards at [c, c + needed), c the cursor after
\* the shuffle check, and the cursor ends at c + needed
C8_HandLayout ==
    (Dealt /\ last.ready) =>
        /\ last.start >= 0 /\ last.start + Needed <= Len(deck)
        /\ \A i \in DOMAIN hands :
              hands[i] = in_hands[i] \o board
                            \o SubSeq(deck, last.start + 1, last.start + Needed)
        /\ current_offset = last.start + Needed

C8_Witness ==
    /\ Dealt /\ last.ready /\ last.start > 0
    /\ Len(hands) = 2 /\ Len(board) = 3

\* C9 as stated: an input with a repeated card fails with DuplicateCard
\* naming a repeated card
C9_DuplicateRejected ==
    (Returned /\ HasRepeats) =>
        /\ phase = "failed"
        /\ err.kind = "DuplicateCard"
        /\ err.card \in RepeatedCards

\* C9 amended: an input with a repeated card fails; the error is
\* DuplicateCard naming a repeated card when every hand has 2 cards and the
\* board at most 5
C9_DuplicateFails ==
    (Returned /\ HasRepeats) =>
        /\ phase = "failed"
        /\ err # NoError
        /\ (BadSizes = {} /\ Len(in_board) <= BoardMax) =>
              (err.kind = "DuplicateCard" /\ err.card \in RepeatedCards)

C9_Witness ==
    /\ phase = "failed" /\ err.kind = "DuplicateCard"
    /\ ctor = "new_with_board" /\ err.card \in Range(in_board)
    /\ BadSizes = {} /\ in_hands # <<>>

\* C10 as stated: an input with a hand not of 2 cards fails with
\* InvalidHandSize
C10_BadSizeRejected ==
    (Returned /\ BadSizes # {}) =>
        (phase = "failed" /\ err = InvalidHandSize)

\* C10 amended: an input with a hand not of 2 cards fails; the error is
\* InvalidHandSize when the board has at most 5 cards and no card repeats
\* among the hands before the first such hand
C10_BadSizeFails ==
    (Returned /\ BadSizes # {}) =>
        /\ phase = "failed"
        /\ err # NoError
        /\ (/\ Len(in_board) <= BoardMax
            /\ NoDup(Flat(SubSeq(in_hands, 1, Min(BadSizes) - 1)))) =>
              err = InvalidHandSize

C10_Witness ==
    /\ phase = "failed" /\ err = InvalidHandSize
    /\ Len(in_hands) = 2 /\ BadSizes = {2} /\ Len(in_hands[2]) = 3

\* C11: new_with_board fails with BoardTooLarge for every board of 6 or
\* more cards, whatever the hands; a board of 0..5 cards in an input without
\* repeated cards and with hands of 2 cards is stored as given
C11_BoardSize ==
    (Returned /\ ctor = "new_with_board") =>
        /\ Len(in_board) > BoardMax => (phase = "failed" /\ err = BoardTooLarge)
        /\ (Len(in_board) <= BoardMax /\ ~HasRepeats /\ BadSizes = {}) =>
              /\ Built /\ board = in_board
              /\ last.op = "none" =>
                    (hands = in_hands /\ current_offset = Sentinel)

C11_Witness ==
    /\ phase = "failed" /\ err = BoardTooLarge
    /\ BadSizes # {} /\ HasRepeats

\* C12: simulate returns an error exactly when the engine has no hands, the
\* error is NoHands, and RankingUnavailable is never returned
C12_ErrorIffNoHands ==
    /\ result.kind # "RankingUnavailable"
    /\ last.op = "simulate" =>
          /\ (result.kind = "NoHands") <=> (hands = <<>>)
          /\ phase = "built" => result.kind \in {"Ok", "NoHands"}

C12_Witness == last.op = "simulate" /\ result.kind = "NoHands" /\ last.run = 1

\* C13: with at least one hand 52 + 5 exceeds the pool length, the cursor is
\* 52 and nothing is drawn until the pool has been shuffled, and every
\* simulate call, the first included, leaves a pool that has been shuffled,
\* drawing from cursor 0 right after a shuffle
C13_FirstTrialShuffles ==
    (Built /\ hands # <<>>) =>
        /\ Sentinel + ShuffleNeed > Len(deck)
        /\ ~ever_shuffled => (current_offset = Sentinel /\ epoch = <<>>)
        /\ last.op = "simulate" => ever_shuffled
        /\ (last.op = "simulate" /\ last.before = Sentinel) =>
              (last.shuffled /\ last.start = 0)

C13_Witness ==
    /\ Dealt /\ last.before = Sentinel /\ last.shuffled
    /\ Len(hands) = 1 /\ board = <<>>

\* the cursor is the sentinel before the first shuffle and a position of
\* the pool, or its length, after it
CursorInRange ==
    Built =>
        /\ ~ever_shuffled => current_offset = Sentinel
        /\ ever_shuffled => current_offset \in 0..Len(deck)
        /\ phase = "built" => (current_offset = Sentinel <=> result.kind # "Ok")

\* a step that is a simulate call on an engine with hands
SimulateStep == phase = "built" /\ hands # <<>> /\ last'.op = "simulate"

\* a step that is a reset call
ResetStep == phase = "built" /\ last'.op = "reset"

\* C14: the cursor is 52 until the first simulate that returns a result and
\* within 0..pool length afterwards; a call that does not reshuffle never
\* lowers it, simulate adds needed to it, and the draw starts at 0 exactly
\* when the pool was reshuffled
C14_Cursor ==
    [][/\ CursorInRange
       /\ CursorInRange'
       /\ SimulateStep =>
             /\ last'.start = (IF last'.shuffled THEN 0 ELSE current_offset)
             /\ phase' = "built" => current_offset' = last'.start + Needed
             /\ ~last'.shuffled => (current_offset' >= current_offset /\ deck' = deck)
       /\ ResetStep => current_offset' = current_offset
       /\ (phase = "built" /\ current_offset' < current_offset) =>
             (last'.op = "simulate" /\ last'.shuffled)]_vars

C14_Witness ==
    /\ Dealt /\ last.shuffled /\ last.before # Sentinel
    /\ last.before > current_offset /\ Len(board) = 1

\* C15: a simulate call on an engine with hands reshuffles exactly when
\* cursor + 5 > pool length, whatever the board's size
C15_ShuffleTest ==
    (last.op = "simulate" /\ hands # <<>>) =>
        /\ last.shuffled <=> (last.before + ShuffleNeed > Len(deck))
        /\ last.shuffled => last.start = 0
        /\ ~last.shuffled => last.start = last.before

C15_Witness ==
    /\ Dealt /\ last.shuffled /\ last.before # Sentinel
    /\ Needed \in 1..4 /\ last.before + Needed <= Len(deck)

\* C16: reset truncates every hand to its first 2 cards and changes nothing
\* else: pool, cursor, board are as before, and a simulate that follows
\* without a reshuffle draws from the cursor the last trial left
C16_ResetFrame ==
    [][/\ ResetStep =>
             /\ deck' = deck /\ board' = board
             /\ current_offset' = current_offset
             /\ phase' = phase /\ result' = result
             /\ hands' = [i \in DOMAIN hands |-> Truncate(hands[i], HandSize)]
       /\ (SimulateStep /\ last.op = "reset" /\ ~last'.shuffled) =>
             last'.start = last.before]_vars

C16_Witness ==
    /\ last.op = "reset" /\ ~last.ready
    /\ current_offset \in 1..Len(deck) /\ Len(board) = 2

\* C17: once built, the board never changes and the pool keeps its cards
\* and its length through every simulate and reset; it never holds a hole
\* card or a board card
C17_PoolMembership ==
    [][phase = "built" =>
          /\ board' = board /\ board = in_board
          /\ Len(deck') = Len(deck)
          /\ Range(deck') = Range(deck)
          /\ Range(deck') \cap (Range(Flat(in_hands)) \cup Range(in_board)) = {}
          /\ Len(deck') = DeckSize - HandSize * Len(in_hands) - Len(in_board)]_vars

C17_Witness ==
    /\ Dealt /\ last.shuffled /\ last.before # Sentinel
    /\ Len(hands) = 2 /\ Len(board) = 3

\* C18: new_with_hands(hands) and new_with_board(hands, no board) fail on
\* the same inputs with the same error and otherwise give the same engine:
\* same pool, same hands, empty board, cursor 52
C18_SameConstructor ==
    in_board = <<>> =>
        \A a \in {new_with_hands(in_hands)} :
        \A b \in {new_with_board(in_hands, <<>>)} :
            /\ a.err = b.err
            /\ a.err = NoError =>
                  /\ a = b
                  /\ b.board = <<>> /\ b.current_offset = Sentinel
            /\ Returned => (err = b.err /\ (phase = "failed" <=> b.err # NoError))
            /\ (Built /\ last.op = "none") =>
                  /\ hands = a.hands /\ board = a.board
                  /\ current_offset = a.current_offset
                  /\ Range(deck) = a.deck /\ Len(deck) = Cardinality(a.deck)

C18_Witness ==
    /\ Dealt /\ ctor = "new_with_board" /\ in_board = <<>>
    /\ Len(hands) = 2

\* C19: both constructors accept an input without hands, and every simulate
\* on such an engine returns NoHands and changes nothing: no shuffle, cursor
\* still 52, board and pool as they were
C19_NoHandsFrame ==
    [][/\ (Returned' /\ in_hands = <<>> /\ Len(in_board) <= BoardMax
             /\ NoDup(in_board)) =>
             (phase' = "built" /\ hands' = <<>> /\ current_offset' = Sentinel)
       /\ (phase = "built" /\ hands = <<>> /\ last'.op = "simulate") =>
             /\ result'.kind = "NoHands"
             /\ ~last'.shuffled /\ ~ever_shuffled'
             /\ deck' = deck /\ board' = board /\ hands' = hands
             /\ current_offset' = current_offset
             /\ phase' = "built"]_vars

C19_Witness ==
    /\ last.op = "simulate" /\ result.kind = "NoHands" /\ last.run = 2
    /\ Len(board) = 3 /\ current_offset = Sentinel

\* trials served by one shuffle of a pool of at least 5 cards
Period == (Len(deck) - ShuffleNeed) \div Needed + 1

\* C20: with a pool of at least 5 cards and needed > 0 a reshuffle comes
\* after exactly floor((L - 5) / needed) + 1 trials on one shuffle; with a
\* board of 5 cards only the first simulate shuffles and the cursor stays 0
C20_ShufflePeriod ==
    (Built /\ hands # <<>> /\ Len(deck) >= ShuffleNeed /\ ever_shuffled) =>
        /\ Len(epoch) = current_offset
        /\ IF Needed > 0
           THEN /\ current_offset <= Needed * Period
                /\ last.op = "simulate" =>
                      /\ (last.shuffled /\ last.before # Sentinel) =>
                            last.before = Needed * Period
                      /\ ~last.shuffled => last.before < Needed * Period
           ELSE /\ current_offset = 0
                /\ (last.op = "simulate" /\ last.shuffled) =>
                      last.before = Sentinel

C20_Witness ==
    /\ Dealt /\ last.shuffled /\ last.before = 45
    /\ Len(hands) = 2 /\ board = <<>> /\ Period = 9

====
